---- MODULE Spec2Model ----
(***************************************************************************)
(* Placeholder shapes of pptx/shapes/placeholder.py: three-tier dimension  *)
(* inheritance (slide -> layout -> master) and the picture-placeholder     *)
(* population workflow (insert_picture).                                   *)
(*                                                                         *)
(* One presentation is modelled: a slide master with a TITLE and a BODY    *)
(* placeholder, one slide layout with one placeholder, and one slide whose *)
(* shape tree holds one placeholder between two ordinary shapes.           *)
(***************************************************************************)
EXTENDS Integers, Sequences, FiniteSets, TLC

\* ------------------------------------------------------------------ bounds
\* largest EMU value a setter or a loaded file supplies
MaxEMU == 2
\* number of successful dimension assignments in one behaviour
MaxSets == 1

\* ------------------------------------------------------- values and errors
\* Python None as a dimension value
None == 0 - 1
\* an AttributeError raised by the call (None has no such attribute, or the
\* property has no setter)
AttributeError == 0 - 2
\* a KeyError raised by the dict lookup of the type-remap table
KeyError == 0 - 3
\* a TypeError raised by arithmetic on None
TypeError == 0 - 4

Values == 1..MaxEMU
ValuesOrNone == Values \cup {None}
Raised == {AttributeError, KeyError, TypeError}

Dims == {"left", "top", "width", "height"}

\* Python None as an element, a part or a shape
NoElement == "None"

\* -------------------------------------------------------- placeholder types
\* members of PP_PLACEHOLDER
PP_PLACEHOLDER ==
    {"BODY", "CHART", "BITMAP", "CENTER_TITLE", "ORG_CHART", "DATE", "FOOTER",
     "MEDIA_CLIP", "OBJECT", "PICTURE", "SLIDE_NUMBER", "SUBTITLE", "TABLE",
     "TITLE"}

\* the dict literal of LayoutPlaceholder._master_placeholder
inheritee_ph_type_table ==
    [t \in {"BODY", "CHART", "BITMAP", "CENTER_TITLE", "ORG_CHART", "DATE",
            "FOOTER", "MEDIA_CLIP", "OBJECT", "PICTURE", "SLIDE_NUMBER",
            "SUBTITLE", "TABLE", "TITLE"} |->
        CASE t = "BODY"         -> "BODY"
          [] t = "CHART"        -> "BODY"
          [] t = "BITMAP"       -> "BODY"
          [] t = "CENTER_TITLE" -> "TITLE"
          [] t = "ORG_CHART"    -> "BODY"
          [] t = "DATE"         -> "DATE"
          [] t = "FOOTER"       -> "FOOTER"
          [] t = "MEDIA_CLIP"   -> "BODY"
          [] t = "OBJECT"       -> "BODY"
          [] t = "PICTURE"      -> "BODY"
          [] t = "SLIDE_NUMBER" -> "SLIDE_NUMBER"
          [] t = "SUBTITLE"     -> "BODY"
          [] t = "TABLE"        -> "BODY"
          [] t = "TITLE"        -> "TITLE"]

\* a table that sends SUBTITLE to TITLE instead of BODY
inheritee_ph_type_subtitle_as_title(t) ==
    IF t \notin DOMAIN inheritee_ph_type_table THEN "KeyError"
    ELSE IF t = "SUBTITLE" THEN "TITLE"
    ELSE inheritee_ph_type_table[t]

\* the subscript [self.ph_type] on the table: the target type, or KeyError
inheritee_ph_type(t) ==
    IF t \in DOMAIN inheritee_ph_type_table
    THEN inheritee_ph_type_table[t]
    ELSE "KeyError"

\* ------------------------------------------------------------------- state
ElemIds == {"mTitle", "mBody", "lph", "sph", "pic"}
MasterElems == {"mTitle", "mBody"}
LayoutElems == {"lph"}

NoPh == [idx |-> 0 - 1, type |-> "None"]

VARIABLES
    slide_layout,   \* slide.slide_layout: "layout" or NoElement
    slide_master,   \* slide_layout.slide_master: "master" or NoElement
    ph,             \* element -> its p:ph marker [idx, type], or NoPh
    xfrm,           \* element -> directly applied left/top/width/height
    spTree,         \* the slide's shape tree, in document order
    variant,        \* class of the slide placeholder shape object
    self_element,   \* ._element of the slide placeholder shape object
    returned,       \* element of the PlaceholderPicture insert_picture returned
    imageParts,     \* image sources held by the image-part store
    nsets,          \* successful dimension assignments so far
    lastOp          \* the last call made and how it ended

vars == <<slide_layout, slide_master, ph, xfrm, spTree, variant, self_element,
          returned, imageParts, nsets, lastOp>>

graph == <<slide_layout, slide_master, variant>>

NoXfrm == [d \in Dims |-> None]

\* geometry a loaded layout placeholder carries: no a:xfrm at all, or an
\* extent (width, height) without an offset (left, top)
LoadedGeoms ==
    {[d \in Dims |-> IF d \in {"left", "top"} THEN None ELSE e] :
        e \in {None, MaxEMU}}

Images == {"good.png", "unreadable.bin"}
Readable == {"good.png"}

Shapes == {"master_title", "master_body", "layout_ph", "slide_ph", "filled_pic"}
\* the slide placeholder as loaded: its class and its idx (the layout
\* placeholder has idx 0)
SlideConfigs ==
    {<<"PicturePlaceholder", 0>>, <<"PicturePlaceholder", 1>>,
     <<"SlidePlaceholder", 0>>}

\* placeholder types of the layout placeholder where the slide tier is
\* exercised: both TITLE-family types, two BODY-family types and a type the
\* master has no placeholder for
LayoutTypes == {"TITLE", "CENTER_TITLE", "BODY", "PICTURE", "FOOTER"}

\* a loaded presentation whose slide -> layout -> master links are g, whose
\* layout placeholder has a type in types and whose slide placeholder is one
\* of configs
Loaded(g, types, configs) ==
    /\ slide_layout = g[1]
    /\ slide_master = g[2]
    /\ \E t \in types, c \in configs :
          /\ ph = [e \in ElemIds |->
                     CASE e = "mTitle" -> [idx |-> 0, type |-> "TITLE"]
                       [] e = "mBody"  -> [idx |-> 1, type |-> "BODY"]
                       [] e = "lph"    -> [idx |-> 0, type |-> t]
                       [] e = "sph"    -> [idx |-> c[2], type |-> "PICTURE"]
                       [] OTHER        -> NoPh]
          /\ variant = c[1]
    /\ \E gl \in LoadedGeoms :
          xfrm = [e \in ElemIds |-> IF e = "lph" THEN gl ELSE NoXfrm]
    /\ spTree = <<"sp1", "sph", "sp3">>
    /\ self_element = "sph"
    /\ returned = NoElement
    /\ imageParts = {}
    /\ nsets = 0
    /\ lastOp = [op |-> "init", result |-> "ok"]

\* every slide has its layout and every layout its master
Init == Loaded(<<"layout", "master">>, LayoutTypes, SlideConfigs)

\* the same, with a layout placeholder of every placeholder type under a
\* plain slide placeholder
InitTiers ==
    Loaded(<<"layout", "master">>, PP_PLACEHOLDER, {<<"SlidePlaceholder", 0>>})

\* the terminal case: a layout without a master, or a slide without a layout
InitTerminal ==
    \E g \in {<<"layout", NoElement>>, <<NoElement, NoElement>>} :
        Loaded(g, LayoutTypes, SlideConfigs)

\* ------------------------------------------------- collaborators' lookups
\* slide_layout.placeholders.get(idx=idx): the layout placeholder element
\* with that idx, or None
layout_placeholders_get(idx) ==
    IF \E e \in LayoutElems : ph[e].idx = idx
    THEN CHOOSE e \in LayoutElems : ph[e].idx = idx
    ELSE NoElement

\* slide_master.placeholders.get(ph_type, None): the master placeholder
\* element of that type, or None
master_placeholders_get(ph_type) ==
    IF \E e \in MasterElems : ph[e].type = ph_type
    THEN CHOOSE e \in MasterElems : ph[e].type = ph_type
    ELSE NoElement

\* the master placeholder element with that idx, or None
master_placeholders_get_by_idx(idx) ==
    IF \E e \in MasterElems : ph[e].idx = idx
    THEN CHOOSE e \in MasterElems : ph[e].idx = idx
    ELSE NoElement

\* BaseShape.left/top/width/height: the value on the shape's own element;
\* an attribute read on None raises
BaseShape_dimension(el, d) ==
    IF el = NoElement THEN AttributeError ELSE xfrm[el][d]

\* ------------------------------------------------------ LayoutPlaceholder
\* LayoutPlaceholder._master_placeholder keyed by the placeholder's idx
LayoutPlaceholder_master_placeholder_by_idx(el) ==
    IF inheritee_ph_type(ph[el].type) = "KeyError" THEN "KeyError"
    ELSE IF slide_master = NoElement THEN "AttributeError"
    ELSE master_placeholders_get_by_idx(ph[el].idx)

\* LayoutPlaceholder._master_placeholder: a master element, None, or the
\* error raised (KeyError by the table, AttributeError by None.placeholders)
LayoutPlaceholder_master_placeholder(el) ==
    IF inheritee_ph_type(ph[el].type) = "KeyError" THEN "KeyError"
    ELSE IF slide_master = NoElement THEN "AttributeError"
    ELSE master_placeholders_get(inheritee_ph_type(ph[el].type))

\* LayoutPlaceholder._inherited_value
LayoutPlaceholder_inherited_value(el, d) ==
    LET master_placeholder == LayoutPlaceholder_master_placeholder(el) IN
    CASE master_placeholder = "KeyError"       -> KeyError
      [] master_placeholder = "AttributeError" -> AttributeError
      [] master_placeholder = NoElement        -> None
      [] OTHER -> BaseShape_dimension(master_placeholder, d)

\* LayoutPlaceholder._direct_or_inherited_value
LayoutPlaceholder_direct_or_inherited_value(el, d) ==
    LET directly_applied_value == BaseShape_dimension(el, d) IN
    IF directly_applied_value # None THEN directly_applied_value
    ELSE LayoutPlaceholder_inherited_value(el, d)

\* ---------------------------------------------------- _InheritsDimensions
\* _InheritsDimensions._layout_placeholder: a layout element, None, or the
\* AttributeError raised by None.placeholders
InheritsDimensions_layout_placeholder(el) ==
    IF slide_layout = NoElement THEN "AttributeError"
    ELSE layout_placeholders_get(ph[el].idx)

\* _InheritsDimensions._inherited_value reading the layout placeholder's own
\* element instead of its effective value
InheritsDimensions_inherited_value_one_hop(el, d) ==
    LET layout_placeholder == InheritsDimensions_layout_placeholder(el) IN
    CASE layout_placeholder = "AttributeError" -> AttributeError
      [] layout_placeholder = NoElement        -> None
      [] OTHER -> BaseShape_dimension(layout_placeholder, d)

\* _InheritsDimensions._inherited_value
InheritsDimensions_inherited_value(el, d) ==
    LET layout_placeholder == InheritsDimensions_layout_placeholder(el) IN
    CASE layout_placeholder = "AttributeError" -> AttributeError
      [] layout_placeholder = NoElement        -> None
      [] OTHER ->
           LayoutPlaceholder_direct_or_inherited_value(layout_placeholder, d)

\* _InheritsDimensions._effective_value
InheritsDimensions_effective_value(el, d) ==
    LET directly_applied_value == BaseShape_dimension(el, d) IN
    IF directly_applied_value # None THEN directly_applied_value
    ELSE InheritsDimensions_inherited_value(el, d)

\* ------------------------------------------------------------ shape objects
\* the class of each shape object
ClassOf(shape) ==
    CASE shape \in {"master_title", "master_body"} -> "MasterPlaceholder"
      [] shape = "layout_ph"  -> "LayoutPlaceholder"
      [] shape = "slide_ph"   -> variant
      [] shape = "filled_pic" -> "PlaceholderPicture"

\* the ._element of each shape object
ElementOf(shape) ==
    CASE shape = "master_title" -> "mTitle"
      [] shape = "master_body"  -> "mBody"
      [] shape = "layout_ph"    -> "lph"
      [] shape = "slide_ph"     -> self_element
      [] shape = "filled_pic"   -> returned

\* the shape objects a caller can hold
Exists(shape) ==
    CASE shape \in {"master_title", "master_body"} -> slide_master # NoElement
      [] shape = "layout_ph"  -> slide_layout # NoElement
      [] shape = "slide_ph"   -> TRUE
      [] shape = "filled_pic" -> returned # NoElement

ErrorName(v) ==
    CASE v = AttributeError -> "AttributeError"
      [] v = KeyError       -> "KeyError"
      [] v = TypeError      -> "TypeError"

\* the left/top/width/height property getter of a shape object
dimension_getter(shape, d) ==
    CASE ClassOf(shape) = "MasterPlaceholder" ->
           BaseShape_dimension(ElementOf(shape), d)
      [] ClassOf(shape) = "LayoutPlaceholder" ->
           LayoutPlaceholder_direct_or_inherited_value(ElementOf(shape), d)
      [] OTHER ->
           InheritsDimensions_effective_value(ElementOf(shape), d)

\* Shape.shape_type of an autoshape element
Shape_shape_type(el) ==
    IF el = NoElement THEN "AttributeError"
    ELSE IF ph[el] # NoPh THEN "PLACEHOLDER" ELSE "AUTO_SHAPE"

\* Picture.shape_type
Picture_shape_type == "PICTURE"

\* shape_type with Picture ahead of _InheritsDimensions among the bases of
\* PlaceholderPicture
shape_type_picture_first(class, el) ==
    CASE class \in {"MasterPlaceholder", "LayoutPlaceholder"} ->
           Shape_shape_type(el)
      [] class = "PlaceholderPicture" -> Picture_shape_type
      [] OTHER -> "PLACEHOLDER"

\* shape_type as the method resolution order of each class finds it
shape_type(class, el) ==
    CASE class \in {"MasterPlaceholder", "LayoutPlaceholder"} ->
           Shape_shape_type(el)
      [] class = "SlidePlaceholder"   -> "PLACEHOLDER"
      [] class = "PicturePlaceholder" -> "PLACEHOLDER"
      [] class = "PlaceholderPicture" -> "PLACEHOLDER"

\* ------------------------------------------------------------------ setters
\* a setter that also writes the paired extent (width with height, left
\* with top)
assign_dimension_pair(el, d, v) ==
    LET other == CASE d = "width" -> "height" [] d = "height" -> "width"
                   [] d = "left" -> "top" [] d = "top" -> "left"
    IN [xfrm EXCEPT ![el][d] = v, ![el][other] = v]

\* self._element.cx = value (and cy, x, y): the element's own attribute
assign_dimension(el, d, v) == [xfrm EXCEPT ![el][d] = v]

\* how an assignment to left/top/width/height of a shape object ends: the
\* properties LayoutPlaceholder defines have no setter
dimension_setter_result(class, el) ==
    CASE class = "LayoutPlaceholder" -> "AttributeError"
      [] el = NoElement              -> "AttributeError"
      [] OTHER                       -> "ok"

\* the assignment shape.d = v
dimension_setter(shape, d, v) ==
    LET result == dimension_setter_result(ClassOf(shape), ElementOf(shape)) IN
    /\ Exists(shape)
    /\ nsets < MaxSets
    /\ IF result = "ok"
       THEN /\ xfrm' = assign_dimension(ElementOf(shape), d, v)
            /\ nsets' = nsets + 1
       ELSE UNCHANGED <<xfrm, nsets>>
    /\ lastOp' = [op |-> "set", result |-> result]
    /\ UNCHANGED <<graph, ph, spTree, self_element, returned, imageParts>>

SetMasterDimension(shape, d, v) ==
    shape \in {"master_title", "master_body"} /\ dimension_setter(shape, d, v)

SetLayoutDimension(d, v) ==
    ClassOf("layout_ph") = "LayoutPlaceholder"
    /\ dimension_setter("layout_ph", d, v)

SetSlideDimension(d, v) ==
    ClassOf("slide_ph") \in {"SlidePlaceholder", "PicturePlaceholder"}
    /\ dimension_setter("slide_ph", d, v)

SetFilledDimension(d, v) ==
    ClassOf("filled_pic") = "PlaceholderPicture"
    /\ dimension_setter("filled_pic", d, v)

\* ----------------------------------------------------------- insert_picture
\* lxml addprevious: new becomes the sibling right before old
addprevious(t, old, new) ==
    LET i == CHOOSE k \in 1..Len(t) : t[k] = old IN
    SubSeq(t, 1, i - 1) \o <<new>> \o SubSeq(t, i, Len(t))

\* lxml remove: old leaves its parent
remove(t, old) == SelectSeq(t, LAMBDA e : e # old)

\* part.get_or_add_image_part raises on a source it cannot read or decode
get_or_add_image_part_raises(img) == img \notin Readable

\* CT_Picture.new_ph_pic: the new p:pic element has no a:xfrm
new_ph_pic == NoXfrm

\* CT_Picture.crop_to_fit on the placeholder's effective (width, height):
\* how it can end
crop_to_fit_outcomes(w, h) ==
    IF w = None \/ h = None THEN {"ok", "TypeError"} ELSE {"ok"}

\* the document and the objects as a call leaves them
Current ==
    [result |-> "ok", ph |-> ph, xfrm |-> xfrm, spTree |-> spTree,
     self_element |-> self_element, returned |-> returned,
     imageParts |-> imageParts]

\* _replace_placeholder_with that leaves the p:ph marker on the old element
replace_placeholder_without_ph(c, new) ==
    [c EXCEPT !.spTree = remove(addprevious(c.spTree, c.self_element, new),
                                c.self_element),
              !.self_element = NoElement]

\* _BaseSlidePlaceholder._replace_placeholder_with: move the p:ph marker to
\* the new element, insert it before the old one, remove the old one and
\* clear self._element
replace_placeholder_with(c, new) ==
    [c EXCEPT !.ph = [c.ph EXCEPT ![new] = c.ph[c.self_element],
                                  ![c.self_element] = NoPh],
              !.spTree = remove(addprevious(c.spTree, c.self_element, new),
                                c.self_element),
              !.self_element = NoElement]

\* insert_picture that splices the new element in before it asks the
\* image-part store for the image
insert_picture_splice_first(img, crop) ==
    IF self_element = NoElement
    THEN [Current EXCEPT !.result = "AttributeError"]
    ELSE LET spliced == replace_placeholder_with(
                            [Current EXCEPT !.xfrm["pic"] = new_ph_pic],
                            "pic") IN
         IF get_or_add_image_part_raises(img)
         THEN [spliced EXCEPT !.result = "ImageAcquisitionFailure"]
         ELSE [spliced EXCEPT !.imageParts = imageParts \cup {img},
                              !.returned = "pic"]

\* PicturePlaceholder.insert_picture(img): _new_placeholder_pic (the image,
\* then self.id and self.name, the new element, the crop to self.width and
\* self.height), then _replace_placeholder_with, then the new shape object
insert_picture(img, crop) ==
    IF get_or_add_image_part_raises(img)
    THEN [Current EXCEPT !.result = "ImageAcquisitionFailure"]
    ELSE
    LET stored == [Current EXCEPT !.imageParts = imageParts \cup {img}]
        w == InheritsDimensions_effective_value(self_element, "width")
        h == InheritsDimensions_effective_value(self_element, "height")
    IN  CASE self_element = NoElement ->
               [stored EXCEPT !.result = "AttributeError"]
          [] self_element # NoElement /\ w \in Raised ->
               [stored EXCEPT !.result = ErrorName(w)]
          [] self_element # NoElement /\ w \notin Raised /\ h \in Raised ->
               [stored EXCEPT !.result = ErrorName(h)]
          [] self_element # NoElement /\ w \notin Raised /\ h \notin Raised
             /\ crop # "ok" ->
               [stored EXCEPT !.result = crop]
          [] OTHER ->
               [replace_placeholder_with(
                    [stored EXCEPT !.xfrm["pic"] = new_ph_pic], "pic")
                  EXCEPT !.returned = "pic"]

\* the crop outcomes open to a call of insert_picture in this state
CropChoices ==
    IF self_element = NoElement THEN {"ok"}
    ELSE LET w == InheritsDimensions_effective_value(self_element, "width")
             h == InheritsDimensions_effective_value(self_element, "height")
         IN IF w \in Raised \/ h \in Raised THEN {"ok"}
            ELSE crop_to_fit_outcomes(w, h)

\* slide_ph.insert_picture(img)
InsertPicture(img) ==
    /\ variant = "PicturePlaceholder"
    /\ \E crop \in CropChoices :
         LET after == insert_picture(img, crop) IN
         /\ ph' = after.ph
         /\ xfrm' = after.xfrm
         /\ spTree' = after.spTree
         /\ self_element' = after.self_element
         /\ returned' = after.returned
         /\ imageParts' = after.imageParts
         /\ lastOp' = [op |-> "insert_picture", result |-> after.result]
    /\ UNCHANGED <<graph, nsets>>

\* ------------------------------------------------------------ specification
Next ==
    \/ \E shape \in Shapes, d \in Dims, v \in Values :
          SetMasterDimension(shape, d, v)
    \/ \E d \in Dims, v \in Values : SetLayoutDimension(d, v)
    \/ \E d \in Dims, v \in Values : SetSlideDimension(d, v)
    \/ \E d \in Dims, v \in Values : SetFilledDimension(d, v)
    \/ \E img \in Images : InsertPicture(img)

Spec == Init /\ [][Next]_vars

\* the dimension assignments alone, on the three tiers
NextTiers ==
    \/ \E shape \in Shapes, d \in Dims, v \in Values :
          SetMasterDimension(shape, d, v)
    \/ \E d \in Dims, v \in Values : SetLayoutDimension(d, v)
    \/ \E d \in Dims, v \in Values : SetSlideDimension(d, v)

SpecTiers == InitTiers /\ [][NextTiers]_vars

\* without a slide master there is no master placeholder to assign to
NextTerminal ==
    \/ \E d \in Dims, v \in Values : SetLayoutDimension(d, v)
    \/ \E d \in Dims, v \in Values : SetSlideDimension(d, v)
    \/ \E d \in Dims, v \in Values : SetFilledDimension(d, v)
    \/ \E img \in Images : InsertPicture(img)

SpecTerminal == InitTerminal /\ [][NextTerminal]_vars

\* ================================================================= properties
\* the remap the layout tier is to apply, by family
BodyFamily ==
    {"BODY", "CHART", "BITMAP", "ORG_CHART", "MEDIA_CLIP", "OBJECT", "PICTURE",
     "SUBTITLE", "TABLE"}
TitleFamily == {"TITLE", "CENTER_TITLE"}
SelfMapped == {"DATE", "FOOTER", "SLIDE_NUMBER"}
ExpectedRemap(t) ==
    CASE t \in BodyFamily  -> "BODY"
      [] t \in TitleFamily -> "TITLE"
      [] t \in SelfMapped  -> t

\* what a layout placeholder element q is to report for d, from the elements
ExpectedLayout(q, d) ==
    LET ms == {m \in MasterElems : ph[m].type = ExpectedRemap(ph[q].type)} IN
    IF xfrm[q][d] # None THEN xfrm[q][d]
    ELSE IF ms = {} THEN None
    ELSE xfrm[CHOOSE m \in ms : TRUE][d]

\* what a slide placeholder element p is to report for d, from the elements
ExpectedSlide(p, d) ==
    LET ls == {l \in LayoutElems : ph[l].idx = ph[p].idx} IN
    IF xfrm[p][d] # None THEN xfrm[p][d]
    ELSE IF ls = {} THEN None
    ELSE ExpectedLayout(CHOOSE l \in ls : TRUE, d)

\* the slide-tier shape objects whose element is attached
SlideShapes ==
    {s \in {"slide_ph", "filled_pic"} : Exists(s) /\ ElementOf(s) # NoElement}

\* C1: in every reachable state, a dimension read on a slide placeholder
\* gives its own value if it has one, else the effective value of the layout
\* placeholder with its idx (own value, else the master placeholder of the
\* remapped type: two hops), else absent; always from the current elements.
C1_SlideResolution ==
    \A s \in SlideShapes, d \in Dims :
        dimension_getter(s, d) = ExpectedSlide(ElementOf(s), d)

\* a slide placeholder with no width of its own, under a layout placeholder
\* with none either, reads the width just set on the master placeholder
C1_Witness ==
    /\ lastOp = [op |-> "set", result |-> "ok"]
    /\ self_element = "sph"
    /\ xfrm["sph"]["width"] = None
    /\ xfrm["lph"]["width"] = None
    /\ ph["sph"].idx = ph["lph"].idx
    /\ dimension_getter("slide_ph", "width") \in Values

\* C2: a dimension read on a layout placeholder gives its own value if it has
\* one, whatever the master holds; else the value of the master placeholder
\* whose type is the remap of its type (never the one with its idx); else
\* absent.
C2_LayoutResolution ==
    \A d \in Dims : dimension_getter("layout_ph", d) = ExpectedLayout("lph", d)

\* a layout placeholder of a BODY-family type with idx 0 and no width reads
\* the master BODY placeholder's width, not that of the master TITLE
\* placeholder, which has idx 0
C2_Witness ==
    /\ ph["lph"].type \in BodyFamily
    /\ ph["lph"].idx = ph["mTitle"].idx
    /\ xfrm["lph"]["left"] = None
    /\ xfrm["mBody"]["left"] \in Values
    /\ xfrm["mTitle"]["left"] # xfrm["mBody"]["left"]
    /\ dimension_getter("layout_ph", "left") = xfrm["mBody"]["left"]

\* C3: the remap step never fails on a placeholder type and gives the one
\* target type of its family: BODY family to BODY, TITLE and CENTER_TITLE to
\* TITLE, DATE, FOOTER and SLIDE_NUMBER to themselves.
C3_RemapTotal ==
    /\ inheritee_ph_type(ph["lph"].type) = ExpectedRemap(ph["lph"].type)
    /\ \A t \in PP_PLACEHOLDER : inheritee_ph_type(t) \in PP_PLACEHOLDER
    /\ BodyFamily \cup TitleFamily \cup SelfMapped = PP_PLACEHOLDER

\* a SUBTITLE layout placeholder inherits the master BODY placeholder's top
C3_Witness ==
    /\ ph["lph"].type = "SUBTITLE"
    /\ xfrm["lph"]["top"] = None
    /\ xfrm["mBody"]["top"] \in Values
    /\ dimension_getter("layout_ph", "top") = xfrm["mBody"]["top"]

\* the last call was an insert_picture that returned a shape
InsertedOk == lastOp = [op |-> "insert_picture", result |-> "ok"]

\* how an attribute read on the original shape object ends once its element
\* is cleared
OriginalFails ==
    /\ shape_type(variant, self_element) = "AttributeError"
    /\ \A d \in Dims : dimension_getter("slide_ph", d) \in Raised
    /\ \A img \in Images, crop \in {"ok", "TypeError"} :
          insert_picture(img, crop).result # "ok"

\* C4: once insert_picture has returned a shape, every attribute read or
\* method call on the original shape object (shape_type, left, top, width,
\* height, insert_picture) fails.
C4_OriginalUnusable == returned # NoElement => OriginalFails

\* C5 as stated: the shape a successful insert_picture returns has no
\* position or size of its own, its effective width and height are the
\* effective width and height of the placeholder just before the call, and
\* its shape_type is PLACEHOLDER.
C5_Original ==
    [][(returned = NoElement /\ returned' # NoElement) =>
         /\ xfrm'[returned'] = NoXfrm
         /\ shape_type("PlaceholderPicture", returned') = "PLACEHOLDER"
         /\ \A d \in {"width", "height"} :
               dimension_getter("filled_pic", d)'
                   = dimension_getter("slide_ph", d)]_vars

\* C5: the shape a successful insert_picture returns has no position or size
\* of its own and its shape_type is PLACEHOLDER; its effective width and
\* height are what the placeholder inherited from its layout placeholder
\* before the call, which is the placeholder's effective value wherever the
\* placeholder had no value of its own.
C5_InheritsAsBefore ==
    [][(returned = NoElement /\ returned' # NoElement) =>
         /\ xfrm'[returned'] = NoXfrm
         /\ shape_type("PlaceholderPicture", returned') = "PLACEHOLDER"
         /\ \A d \in {"width", "height"} :
               /\ dimension_getter("filled_pic", d)'
                      = InheritsDimensions_inherited_value(self_element, d)
               /\ xfrm[self_element][d] = None =>
                      dimension_getter("filled_pic", d)'
                          = dimension_getter("slide_ph", d)]_vars

\* the returned shape reports the layout placeholder's extent, with none of
\* its own
C5_Witness ==
    /\ InsertedOk
    /\ returned = "pic"
    /\ xfrm["pic"] = NoXfrm
    /\ dimension_getter("filled_pic", "width") \in Values
    /\ dimension_getter("filled_pic", "height") \in Values

\* C6: when the image-part store cannot read or decode the image source,
\* insert_picture ends with that error and the shape tree, the elements with
\* their placeholder markers and both shape objects' element references are
\* as before the call; the tree changes only in a call that got its image
\* and ended well.
C6_AtomicOnImageFailure ==
    [][/\ \A img \in Images \ Readable :
             InsertPicture(img) =>
                 /\ lastOp'.result = "ImageAcquisitionFailure"
                 /\ UNCHANGED <<ph, xfrm, spTree, self_element, returned>>
       /\ (lastOp'.op = "insert_picture"
           /\ <<ph, spTree, self_element, returned>>'
                  # <<ph, spTree, self_element, returned>>) =>
             /\ lastOp'.result = "ok"
             /\ imageParts' # {}]_vars

\* a call with an unreadable source has ended in the error with the
\* placeholder still in its place in the tree
C6_Witness ==
    /\ lastOp = [op |-> "insert_picture", result |-> "ImageAcquisitionFailure"]
    /\ self_element = "sph"
    /\ spTree = <<"sp1", "sph", "sp3">>
    /\ ph["sph"] # NoPh
    /\ returned = NoElement

\* C7: an assignment of v to dimension d of a placeholder of any variant
\* whose element is attached succeeds, writes v to the placeholder's own
\* element, and a read of d right after it returns v.
C7_ReadWrite ==
    [][\A s \in Shapes, d \in Dims, v \in Values :
          (ElementOf(s) # NoElement /\ dimension_setter(s, d, v)) =>
              /\ lastOp'.result = "ok"
              /\ xfrm'[ElementOf(s)][d] = v
              /\ dimension_getter(s, d)' = v]_vars

\* C8: an assignment to a dimension of a slide placeholder leaves every
\* dimension read from the layout placeholder and from the master
\* placeholders as it was, and leaves the other three dimensions of the slide
\* placeholder's own element as they were.
C8_SetIsLocal ==
    [][lastOp'.op = "set" =>
         \A s \in {"slide_ph", "filled_pic"}, d \in Dims :
            (/\ Exists(s)
             /\ ElementOf(s) # NoElement
             /\ xfrm'[ElementOf(s)][d] \in Values
             /\ dimension_setter(s, d, xfrm'[ElementOf(s)][d])) =>
                /\ \A a \in {"layout_ph", "master_title", "master_body"},
                      d2 \in Dims :
                      dimension_getter(a, d2)' = dimension_getter(a, d2)
                /\ \A e \in ElemIds \ {ElementOf(s)} : xfrm'[e] = xfrm[e]
                /\ \A d2 \in Dims \ {d} :
                      xfrm'[ElementOf(s)][d2] = xfrm[ElementOf(s)][d2]]_vars

\* a slide placeholder has just been given a height that differs from the
\* one its layout placeholder has and reports
C8_Witness ==
    /\ lastOp = [op |-> "set", result |-> "ok"]
    /\ self_element = "sph"
    /\ xfrm["sph"]["height"] \in Values
    /\ xfrm["sph"]["width"] = None
    /\ xfrm["lph"]["height"] \in Values
    /\ xfrm["sph"]["height"] # xfrm["lph"]["height"]
    /\ dimension_getter("layout_ph", "height") = xfrm["lph"]["height"]

C10_TerminalTolerated ==
    /\ (slide_layout = NoElement /\ self_element # NoElement) =>
          \A d \in Dims :
              xfrm[self_element][d] = None =>
                  dimension_getter("slide_ph", d) = None
    /\ (slide_layout # NoElement /\ slide_master = NoElement) =>
          \A d \in Dims :
              xfrm["lph"][d] = None => dimension_getter("layout_ph", d) = None

====
